---- MODULE Spec2Model ----
(***************************************************************************)
(* The Great Heist: the simulation loop and the level generator of the two *)
(* Game components of src/unnamed/part_003.                                *)
(*                                                                         *)
(* Units.  The player and the walls live on whole pixels.  Money and guard *)
(* coordinates are real numbers in the source (they come from              *)
(* Math.random() and from the guard speed 1.5 + 0.2*floor); the model      *)
(* keeps them in tenths of a pixel (Scale), which represents every value   *)
(* exactly once Math.random() is n/RandDen.  Time is kept in sixtieths of  *)
(* a second (TimeScale), the fixed step of the second Game.                *)
(***************************************************************************)
EXTENDS Integers, Sequences, FiniteSets, TLC

VARIABLES
    impl,        \* 1: the first Game component (variable dt), 2: the second
    gs,          \* the GameState value held by useState
    inputCode,   \* inputCode / inputPassword: the digits typed into the terminal
    sinceLast,   \* first Game: Date.now() - lastTimeRef.current, in time units
    hasStarted,  \* second Game: the hasStarted flag
    detours      \* frames on this floor spent off the scripted routes

vars == <<impl, gs, inputCode, sinceLast, hasStarted, detours>>

----------------------------------------------------------------------------
(* Program constants.                                                      *)

CANVAS_WIDTH == 600
CANVAS_HEIGHT == 400
PLAYER_SIZE == 30
SPEED == 5
INITIAL_TIME_PER_FLOOR == 60
TIMEOUT_PENALTY == 500
COLLECT_TOLERANCE == 25
CAPTURE_TOLERANCE == 25
ZONE_TOLERANCE == 40
PATROL_THRESHOLD == 5
MONEY_MARGIN == 15
WALL_THICKNESS == 10
SEED_FACTOR == 12345

(* Scaling of the model's number representations.                          *)
Scale == 10
TimeScale == 60
RandDen == 200

InitialTime == INITIAL_TIME_PER_FLOOR * TimeScale

(* Bounds of the exploration.                                              *)
MaxFloor == 2
MaxDetours == 1
MaxScore == 800
MaxGenFloor == 6
MaxPatrolFloor == 46

----------------------------------------------------------------------------
(* Arithmetic helpers.                                                     *)

Abs(a) == IF a < 0 THEN -a ELSE a
Min(a, b) == IF a < b THEN a ELSE b
Max(a, b) == IF a > b THEN a ELSE b

----------------------------------------------------------------------------
(* Math.random().  One call of initFloor consumes a stream of draws; a     *)
(* draw n stands for the value n / RandDen of [0, 1).  A stream is read    *)
(* cyclically, so a short stream stands for a generator that repeats.      *)

Rnd(s, k) == s[(k % Len(s)) + 1]

----------------------------------------------------------------------------
(* Level generator, first Game.                                            *)

Boundaries ==
    << [x |-> 0, y |-> 0, w |-> CANVAS_WIDTH, h |-> WALL_THICKNESS],
       [x |-> 0, y |-> CANVAS_HEIGHT - WALL_THICKNESS, w |-> CANVAS_WIDTH, h |-> WALL_THICKNESS],
       [x |-> 0, y |-> 0, w |-> WALL_THICKNESS, h |-> CANVAS_HEIGHT],
       [x |-> CANVAS_WIDTH - WALL_THICKNESS, y |-> 0, w |-> WALL_THICKNESS, h |-> CANVAS_HEIGHT] >>

(* A variant of the obstacle count without the cap at 8.                   *)
NumObstaclesUncapped(floor) == 3 + floor

NumObstacles(floor) == Min(3 + floor, 8)

Obstacle(floor, i, base) ==
    LET seed == floor * SEED_FACTOR
    IN  [x |-> 50 + ((seed + i * 150) % (CANVAS_WIDTH - 150)),
         y |-> 50 + ((seed + i * 100) % (CANVAS_HEIGHT - 150)),
         w |-> base + ((seed * (i + 1)) % 100),
         h |-> base + ((seed * (i + 2)) % 100)]

generateWalls(floor) ==
    Boundaries \o [j \in 1..NumObstacles(floor) |-> Obstacle(floor, j - 1, 20)]

(* A variant of the rejection test that forgets the margin.                *)
NearWallNoMargin(pos, walls, margin) ==
    \E j \in 1..Len(walls) :
        /\ pos.x > Scale * walls[j].x
        /\ pos.x < Scale * (walls[j].x + walls[j].w)
        /\ pos.y > Scale * walls[j].y
        /\ pos.y < Scale * (walls[j].y + walls[j].h)

(* A variant of the rejection test that rejects a point whose x or whose   *)
(* y alone falls in the range of an expanded wall.                         *)
NearWallOnEitherAxis(pos, walls, margin) ==
    \E j \in 1..Len(walls) :
        \/ /\ pos.x > Scale * (walls[j].x - margin)
           /\ pos.x < Scale * (walls[j].x + walls[j].w + margin)
        \/ /\ pos.y > Scale * (walls[j].y - margin)
           /\ pos.y < Scale * (walls[j].y + walls[j].h + margin)

(* The rejection test of generateMoney: pos (tenths) lies strictly inside  *)
(* some wall expanded by margin on every side.                             *)
NearWall(pos, walls, margin) ==
    \E j \in 1..Len(walls) :
        /\ pos.x > Scale * (walls[j].x - margin)
        /\ pos.x < Scale * (walls[j].x + walls[j].w + margin)
        /\ pos.y > Scale * (walls[j].y - margin)
        /\ pos.y < Scale * (walls[j].y + walls[j].h + margin)

(* 40 + Math.random() * (CANVAS_WIDTH - 80), in tenths.                    *)
MoneyPoint(nx, ny) ==
    [x |-> Scale * 40 + (Scale * (CANVAS_WIDTH - 80) * nx) \div RandDen,
     y |-> Scale * 40 + (Scale * (CANVAS_HEIGHT - 80) * ny) \div RandDen]

(* The while (!valid) loop: the index of the first draw pair, from k on,   *)
(* that is not rejected.                                                   *)
RECURSIVE FirstValid(_, _, _, _)
FirstValid(s, k, walls, margin) ==
    IF NearWall(MoneyPoint(Rnd(s, k), Rnd(s, k + 1)), walls, margin)
    THEN FirstValid(s, k + 2, walls, margin)
    ELSE k

(* A variant of the item count that grows by one per floor.                *)
NumBillsByOne(floor) == 5 + floor

NumBills(floor) == 5 + floor * 2

(* generateMoney, as <<money list, index of the next unused draw>>.        *)
RECURSIVE MoneyFrom(_, _, _, _, _, _)
MoneyFrom(floor, walls, margin, s, k, i) ==
    IF i >= NumBills(floor) THEN [items |-> << >>, next |-> k]
    ELSE LET v == FirstValid(s, k, walls, margin)
             rest == MoneyFrom(floor, walls, margin, s, v + 2, i + 1)
         IN  [items |-> << [pos |-> MoneyPoint(Rnd(s, v), Rnd(s, v + 1)),
                            value |-> 100 * floor,
                            collected |-> FALSE] >> \o rest.items,
              next |-> rest.next]

generateMoney(floor, walls, s, k) == MoneyFrom(floor, walls, MONEY_MARGIN, s, k, 0)

NumGuards(floor) == Min(1 + (floor \div 2), 4)

(* 1.5 + floor * 0.2 pixels per tick, in tenths.                           *)
GuardSpeed(floor) == 15 + 2 * floor

(* A variant of the guard that starts at the far waypoint of its path.     *)
NewGuardAtFarEnd(floor, nx, ny, nw) ==
    LET startX == Scale * 200 + (Scale * (CANVAS_WIDTH - 300) * nx) \div RandDen
        startY == Scale * 100 + (Scale * (CANVAS_HEIGHT - 200) * ny) \div RandDen
        pathWidth == Scale * 100 + (Scale * 100 * nw) \div RandDen
    IN  [pos |-> [x |-> startX + pathWidth, y |-> startY],
         path |-> << [x |-> startX, y |-> startY],
                     [x |-> startX + pathWidth, y |-> startY] >>,
         currentPathIndex |-> 0,
         speed |-> GuardSpeed(floor)]

(* A variant of the guard whose start ranges begin at the spawn.           *)
NewGuardFromSpawn(floor, nx, ny, nw) ==
    LET startX == Scale * 50 + (Scale * (CANVAS_WIDTH - 300) * nx) \div RandDen
        startY == Scale * 50 + (Scale * (CANVAS_HEIGHT - 200) * ny) \div RandDen
        pathWidth == Scale * 100 + (Scale * 100 * nw) \div RandDen
    IN  [pos |-> [x |-> startX, y |-> startY],
         path |-> << [x |-> startX, y |-> startY],
                     [x |-> startX + pathWidth, y |-> startY] >>,
         currentPathIndex |-> 0,
         speed |-> GuardSpeed(floor)]

(* One guard from three draws: startX, startY, pathWidth (tenths).         *)
NewGuard(floor, nx, ny, nw) ==
    LET startX == Scale * 200 + (Scale * (CANVAS_WIDTH - 300) * nx) \div RandDen
        startY == Scale * 100 + (Scale * (CANVAS_HEIGHT - 200) * ny) \div RandDen
        pathWidth == Scale * 100 + (Scale * 100 * nw) \div RandDen
    IN  [pos |-> [x |-> startX, y |-> startY],
         path |-> << [x |-> startX, y |-> startY],
                     [x |-> startX + pathWidth, y |-> startY] >>,
         currentPathIndex |-> 0,
         speed |-> GuardSpeed(floor)]

GuardsOf(floor, n, s, k) ==
    [j \in 1..n |->
        NewGuard(floor, Rnd(s, k + 3 * (j - 1)), Rnd(s, k + 3 * (j - 1) + 1),
                 Rnd(s, k + 3 * (j - 1) + 2))]

generateGuards(floor, s, k) == GuardsOf(floor, NumGuards(floor), s, k)

(* Number.prototype.toString for a natural number, as its decimal digits.  *)
RECURSIVE Digits(_)
Digits(n) == IF n < 10 THEN << n >> ELSE Append(Digits(n \div 10), n % 10)

(* Math.floor(1000 + Math.random() * 9000).toString()                      *)
generatePassword(s, k) == Digits(1000 + (9000 * Rnd(s, k)) \div RandDen)

DoorPos == [x |-> CANVAS_WIDTH - 50, y |-> CANVAS_HEIGHT - 50]
SpawnPos == [x |-> 50, y |-> 50]
PasswordStation == [x |-> 100, y |-> 300]

(* A variant of initFloor whose obstacles take their base size from a      *)
(* random draw.                                                            *)
initFloorDrawingWalls(floor, prevScore, s) ==
    LET walls == Boundaries \o
                    [j \in 1..NumObstacles(floor) |->
                        Obstacle(floor, j - 1, 20 + (Rnd(s, 0) % 10))]
        m == generateMoney(floor, walls, s, 0)
        guards == generateGuards(floor, s, m.next)
        password == generatePassword(s, m.next + 3 * NumGuards(floor))
    IN  [playerPos |-> SpawnPos,
         currentFloor |-> floor,
         score |-> prevScore,
         money |-> m.items,
         walls |-> walls,
         guards |-> guards,
         password |-> password,
         foundPassword |-> FALSE,
         doorPos |-> DoorPos,
         isPaused |-> FALSE,
         isGameOver |-> FALSE,
         showTerminal |-> FALSE,
         lastPasswordFound |-> << >>,
         timeLeft |-> InitialTime]

(* initFloor(floor, prevScore): every field of the state is replaced.      *)
initFloor(floor, prevScore, s) ==
    LET walls == generateWalls(floor)
        m == generateMoney(floor, walls, s, 0)
        guards == generateGuards(floor, s, m.next)
        password == generatePassword(s, m.next + 3 * NumGuards(floor))
    IN  [playerPos |-> SpawnPos,
         currentFloor |-> floor,
         score |-> prevScore,
         money |-> m.items,
         walls |-> walls,
         guards |-> guards,
         password |-> password,
         foundPassword |-> FALSE,
         doorPos |-> DoorPos,
         isPaused |-> FALSE,
         isGameOver |-> FALSE,
         showTerminal |-> FALSE,
         lastPasswordFound |-> << >>,
         timeLeft |-> InitialTime]

----------------------------------------------------------------------------
(* Simulation engine, first Game: the update callback.                     *)

(* Variants of Live that forget one of the three flags.                    *)
LiveIgnoringGameOver(g) == ~g.isPaused /\ ~g.showTerminal
LiveIgnoringTerminal(g) == ~g.isPaused /\ ~g.isGameOver

Live(g) == ~g.isPaused /\ ~g.isGameOver /\ ~g.showTerminal

(* collides(nx, ny): the size x size footprint at (nx, ny) overlaps a wall. *)
collides(nx, ny, walls, size) ==
    \E j \in 1..Len(walls) :
        /\ nx + size > walls[j].x
        /\ nx < walls[j].x + walls[j].w
        /\ ny + size > walls[j].y
        /\ ny < walls[j].y + walls[j].h

(* The movement map read as axis deltas.                                   *)
DeltaX(i) == (IF "right" \in i THEN SPEED ELSE 0) - (IF "left" \in i THEN SPEED ELSE 0)
DeltaY(i) == (IF "down" \in i THEN SPEED ELSE 0) - (IF "up" \in i THEN SPEED ELSE 0)

(* A variant of the movement that tests only the joint target, so that a   *)
(* move blocked on one axis does not slide along the other.                *)
MovePlayerJoint(pos, i, walls) ==
    IF collides(pos.x + DeltaX(i), pos.y + DeltaY(i), walls, PLAYER_SIZE)
    THEN pos
    ELSE [x |-> Max(10, Min(CANVAS_WIDTH - PLAYER_SIZE - 10, pos.x + DeltaX(i))),
          y |-> Max(10, Min(CANVAS_HEIGHT - PLAYER_SIZE - 10, pos.y + DeltaY(i)))]

(* A variant of the movement with neither collision test nor clamp.        *)
MovePlayerFree(pos, i, walls) == [x |-> pos.x + DeltaX(i), y |-> pos.y + DeltaY(i)]

(* Axis-separated collision resolution and the final clamp.                *)
MovePlayer(pos, i, walls) ==
    LET x0 == pos.x + DeltaX(i)
        y0 == pos.y + DeltaY(i)
        x1 == IF collides(x0, pos.y, walls, PLAYER_SIZE) THEN pos.x ELSE x0
        y1 == IF collides(pos.x, y0, walls, PLAYER_SIZE) THEN pos.y ELSE y0
        both == collides(x1, y1, walls, PLAYER_SIZE)
        x2 == IF both THEN pos.x ELSE x1
        y2 == IF both THEN pos.y ELSE y1
    IN  [x |-> Max(10, Min(CANVAS_WIDTH - PLAYER_SIZE - 10, x2)),
         y |-> Max(10, Min(CANVAS_HEIGHT - PLAYER_SIZE - 10, y2))]

(* The player's center, in tenths.                                         *)
CenterX(pos) == Scale * pos.x + (Scale * PLAYER_SIZE) \div 2
CenterY(pos) == Scale * pos.y + (Scale * PLAYER_SIZE) \div 2

(* Both axis distances from point q (tenths) to the player's center are    *)
(* below tol pixels.                                                       *)
Within(q, pos, tol) ==
    /\ Abs(q.x - CenterX(pos)) < Scale * tol
    /\ Abs(q.y - CenterY(pos)) < Scale * tol

Tenths(q) == [x |-> Scale * q.x, y |-> Scale * q.y]

(* A variant of the test that takes a collected item again.                *)
CollectableAgain(m, pos) == Within(m.pos, pos, COLLECT_TOLERANCE)

Collectable(m, pos) == ~m.collected /\ Within(m.pos, pos, COLLECT_TOLERANCE)

(* A variant of the collection that marks exactly the items in reach, so  *)
(* that an item left behind counts as uncollected again.                   *)
CollectMoneyForgetful(money, pos) ==
    [j \in 1..Len(money) |->
        [money[j] EXCEPT !.collected = Within(money[j].pos, pos, COLLECT_TOLERANCE)]]

CollectMoney(money, pos) ==
    [j \in 1..Len(money) |->
        IF Collectable(money[j], pos)
        THEN [money[j] EXCEPT !.collected = TRUE]
        ELSE money[j]]

(* A variant of the sum that pays 100 for an item on every floor.          *)
SumValuesFlat(money, pos, j) ==
    100 * Cardinality({ k \in j..Len(money) : Collectable(money[k], pos) })

RECURSIVE SumValues(_, _, _)
SumValues(money, pos, j) ==
    IF j > Len(money) THEN 0
    ELSE (IF Collectable(money[j], pos) THEN money[j].value ELSE 0)
         + SumValues(money, pos, j + 1)

Sign(a) == IF a > 0 THEN 1 ELSE IF a < 0 THEN -1 ELSE 0

(* A variant of the patrol step that also walks on the tick on which it    *)
(* advances the index.                                                     *)
PatrolStepTurningOnTheMove(g) ==
    LET target == g.path[g.currentPathIndex + 1]
        dx == target.x - g.pos.x
        dy == target.y - g.pos.y
        near == dx * dx + dy * dy < (Scale * PATROL_THRESHOLD) * (Scale * PATROL_THRESHOLD)
    IN  [g EXCEPT !.currentPathIndex = IF near THEN (g.currentPathIndex + 1) % Len(g.path)
                                       ELSE g.currentPathIndex,
                  !.pos = [x |-> g.pos.x + Sign(dx) * g.speed, y |-> g.pos.y]]

(* A variant of the patrol step that advances the index without wrapping.  *)
PatrolStepNoWrap(g) ==
    LET target == g.path[g.currentPathIndex + 1]
        dx == target.x - g.pos.x
        dy == target.y - g.pos.y
    IN  IF dx * dx + dy * dy < (Scale * PATROL_THRESHOLD) * (Scale * PATROL_THRESHOLD)
        THEN [g EXCEPT !.currentPathIndex = g.currentPathIndex + 1]
        ELSE [g EXCEPT !.pos = [x |-> g.pos.x + Sign(dx) * g.speed, y |-> g.pos.y]]

(* One patrol step.  Every path generateGuards builds is horizontal, so    *)
(* the angle to the target is 0 or pi and the step is speed along x.       *)
PatrolStep(g) ==
    LET target == g.path[g.currentPathIndex + 1]
        dx == target.x - g.pos.x
        dy == target.y - g.pos.y
    IN  IF dx * dx + dy * dy < (Scale * PATROL_THRESHOLD) * (Scale * PATROL_THRESHOLD)
        THEN [g EXCEPT !.currentPathIndex = (g.currentPathIndex + 1) % Len(g.path)]
        ELSE [g EXCEPT !.pos = [x |-> g.pos.x + Sign(dx) * g.speed, y |-> g.pos.y]]

MoveGuards(guards) == [j \in 1..Len(guards) |-> PatrolStep(guards[j])]

Caught(guards, pos) ==
    \E j \in 1..Len(guards) : Within(guards[j].pos, pos, CAPTURE_TOLERANCE)

(* A variant of the station test that looks at the vertical axis only.     *)
AtStationRow(pos) == Abs(Scale * PasswordStation.y - CenterY(pos)) < Scale * ZONE_TOLERANCE

AtStation(pos) == Within(Tenths(PasswordStation), pos, ZONE_TOLERANCE)

(* A variant of the door test that asks for the code to be found.          *)
AtDoorWithCode(g, pos) == g.foundPassword /\ Within(Tenths(g.doorPos), pos, ZONE_TOLERANCE)

AtDoor(g, pos) == Within(Tenths(g.doorPos), pos, ZONE_TOLERANCE)

(* A variant of the penalty without the clamp at zero.                     *)
TimeoutScoreUnclamped(score) == score - TIMEOUT_PENALTY

TimeoutScore(score) == Max(0, score - TIMEOUT_PENALTY)

(* A variant of the state updater that keeps the tick's collection when    *)
(* the player is captured.                                                 *)
StepCaptureKeepsLoot(prev, dt, i, s) ==
    LET newTimeLeft == prev.timeLeft - dt
        newPos == MovePlayer(prev.playerPos, i, prev.walls)
        newGuards == MoveGuards(prev.guards)
    IN  IF newTimeLeft <= 0
        THEN initFloor(prev.currentFloor, TimeoutScore(prev.score), s)
        ELSE IF Caught(newGuards, newPos)
        THEN [prev EXCEPT !.isGameOver = TRUE,
                          !.money = CollectMoney(prev.money, newPos),
                          !.score = prev.score + SumValues(prev.money, newPos, 1)]
        ELSE [prev EXCEPT
                 !.playerPos = newPos,
                 !.money = CollectMoney(prev.money, newPos),
                 !.guards = newGuards,
                 !.score = prev.score + SumValues(prev.money, newPos, 1),
                 !.foundPassword = prev.foundPassword \/ AtStation(newPos),
                 !.showTerminal = prev.showTerminal \/ AtDoor(prev, newPos),
                 !.timeLeft = newTimeLeft]

(* A variant of the state updater that tests the door before the capture, *)
(* so that a capture tick can open the terminal.                           *)
StepDoorBeforeCapture(prev, dt, i, s) ==
    LET newTimeLeft == prev.timeLeft - dt
        newPos == MovePlayer(prev.playerPos, i, prev.walls)
        newGuards == MoveGuards(prev.guards)
        showTerminal == prev.showTerminal \/ AtDoor(prev, newPos)
    IN  IF newTimeLeft <= 0
        THEN initFloor(prev.currentFloor, TimeoutScore(prev.score), s)
        ELSE IF Caught(newGuards, newPos)
        THEN [prev EXCEPT !.isGameOver = TRUE, !.showTerminal = showTerminal]
        ELSE [prev EXCEPT
                 !.playerPos = newPos,
                 !.money = CollectMoney(prev.money, newPos),
                 !.guards = newGuards,
                 !.score = prev.score + SumValues(prev.money, newPos, 1),
                 !.foundPassword = prev.foundPassword \/ AtStation(newPos),
                 !.showTerminal = showTerminal,
                 !.timeLeft = newTimeLeft]

(* The state updater of update(): prev, the elapsed dt, the intent, and    *)
(* the stream a timeout's initFloor would draw from.                       *)
Step(prev, dt, i, s) ==
    LET newTimeLeft == prev.timeLeft - dt
        newPos == MovePlayer(prev.playerPos, i, prev.walls)
        newGuards == MoveGuards(prev.guards)
    IN  IF newTimeLeft <= 0
        THEN initFloor(prev.currentFloor, TimeoutScore(prev.score), s)
        ELSE IF Caught(newGuards, newPos)
        THEN [prev EXCEPT !.isGameOver = TRUE]
        ELSE [prev EXCEPT
                 !.playerPos = newPos,
                 !.money = CollectMoney(prev.money, newPos),
                 !.guards = newGuards,
                 !.score = prev.score + SumValues(prev.money, newPos, 1),
                 !.foundPassword = prev.foundPassword \/ AtStation(newPos),
                 !.showTerminal = prev.showTerminal \/ AtDoor(prev, newPos),
                 !.timeLeft = newTimeLeft]

----------------------------------------------------------------------------
(* The environment: random streams, frame times, the player's inputs.      *)

(* Outcomes of Math.random() explored: a quiet floor, and a floor whose    *)
(* guard meets the player on the way to the exit.                          *)
QuietStream == << 50, 10, 199, 69, 186, 50, 100 >>
Streams ==
    { QuietStream,
      << 97, 109, 10, 101, 62, 17, 199 >> }

Keys == { "up", "down", "left", "right" }
Intents == SUBSET Keys

(* The scripted runs: from the spawn east along the top side and south    *)
(* along the east side until the terminal opens; or south along the west  *)
(* side to the code station.                                               *)
EastCol == CANVAS_WIDTH - PLAYER_SIZE - 10
TerminalRow == DoorPos.y - 50
StationRow == PasswordStation.y - 50

RouteIntents(pos) ==
    (IF pos.y = SpawnPos.y /\ pos.x < EastCol THEN { {"right"} } ELSE {})
    \cup (IF pos.x = EastCol /\ pos.y >= SpawnPos.y /\ pos.y < TerminalRow THEN { {"down"} } ELSE {})
    \cup (IF pos.x = SpawnPos.x /\ pos.y >= SpawnPos.y /\ pos.y < StationRow THEN { {"down"} } ELSE {})

(* Codes the player types: the floor's code, and one no floor ever has.    *)
WrongCode == << 0, 0, 0, 0 >>
Codes(g) == { g.password, WrongCode }

----------------------------------------------------------------------------
(* First Game: the actions.                                                *)

Init1 ==
    /\ impl = 1
    /\ \E s \in Streams : gs = initFloor(1, 0, s)
    /\ inputCode = << >>
    /\ sinceLast = 0
    /\ hasStarted = TRUE
    /\ detours = 0

(* On a scripted run the player follows it; off the runs (after a nudge,   *)
(* at a run's end) the keys are free, for MaxDetours frames per floor.     *)
OffRoute(pos) == RouteIntents(pos) = {}
Allowed(g, i) == OffRoute(g.playerPos) \/ i \in RouteIntents(g.playerPos)

(* Where the main thread may stall: at the spawn, off the runs, with the   *)
(* terminal open and after the capture, before a code is typed. A stall    *)
(* needs a score of MaxScore at most, which bounds the number of timeouts  *)
(* and with it the score.                                                  *)
StallPoint(g) ==
    g.playerPos = SpawnPos \/ OffRoute(g.playerPos) \/ g.showTerminal \/ g.isGameOver
MayStall(g) == StallPoint(g) /\ g.score <= MaxScore /\ inputCode = << >>

(* Frames on which update() returns at once: the floor is not live, and    *)
(* the wall clock runs on by a whole floor budget.                         *)
TickIdle ==
    /\ impl = 1
    /\ ~Live(gs)
    /\ sinceLast = 0
    /\ MayStall(gs)
    /\ sinceLast' = sinceLast + InitialTime
    /\ UNCHANGED <<impl, gs, inputCode, hasStarted, detours>>

(* A frame that arrives on time, 1/60 s after the last, and runs the      *)
(* state updater: dt spans the time since the last frame that ran it.      *)
TickLive(i) ==
    /\ impl = 1
    /\ Live(gs)
    /\ Allowed(gs, i)
    /\ OffRoute(gs.playerPos) => detours < MaxDetours
    /\ sinceLast' = 0
    /\ detours' = IF gs.timeLeft - (sinceLast + 1) <= 0 THEN 0
                  ELSE IF OffRoute(gs.playerPos) THEN detours + 1
                  ELSE detours
    /\ \E s \in Streams : gs' = Step(gs, sinceLast + 1, i, s)
    /\ UNCHANGED <<impl, inputCode, hasStarted>>

(* A frame that arrives a whole floor budget late and runs the state       *)
(* updater: the floor times out whatever keys are held.                    *)
TickStall(s) ==
    /\ impl = 1
    /\ Live(gs)
    /\ MayStall(gs)
    /\ sinceLast' = 0
    /\ detours' = 0
    /\ gs' = Step(gs, sinceLast + InitialTime, {}, s)
    /\ UNCHANGED <<impl, inputCode, hasStarted>>

Tick ==
    \/ TickIdle
    \/ \E s \in Streams : TickStall(s)
    \/ \E i \in Intents : TickLive(i)

(* A variant of the toggle that only ever pauses.                          *)
PauseOnly(g) == [g EXCEPT !.isPaused = TRUE]

(* The state updater of the pause toggle.                                  *)
TogglePause(g) == [g EXCEPT !.isPaused = ~g.isPaused]

(* KeyP, or the pause button.                                              *)
PauseToggle ==
    /\ impl = 1
    /\ gs' = TogglePause(gs)
    /\ UNCHANGED <<impl, inputCode, sinceLast, hasStarted, detours>>

(* The terminal form is rendered.                                          *)
TerminalShown(g) == g.showTerminal /\ ~g.isGameOver

(* The close button of the terminal, pressed before a code is typed.       *)
Abort ==
    /\ impl = 1
    /\ TerminalShown(gs)
    /\ inputCode = << >>
    /\ gs' = [gs EXCEPT !.showTerminal = FALSE]
    /\ UNCHANGED <<impl, inputCode, sinceLast, hasStarted, detours>>

(* onChange of the code input.                                             *)
TypeCode(c) ==
    /\ impl = 1
    /\ TerminalShown(gs)
    /\ inputCode' = c
    /\ UNCHANGED <<impl, gs, sinceLast, hasStarted, detours>>

(* The nudge of a rejected code.                                           *)
Nudge(pos) == [x |-> pos.x - 40, y |-> pos.y - 40]

(* A variant of nextFloor() that drops the score.                          *)
nextFloorLosingScore(g, s) == initFloor(g.currentFloor + 1, 0, s)

(* A variant of nextFloor() that skips a floor.                            *)
nextFloorSkippingOne(g, s) == initFloor(g.currentFloor + 2, g.score, s)

(* nextFloor()                                                             *)
nextFloor(g, s) == initFloor(g.currentFloor + 1, g.score, s)

(* A variant of the rejection that leaves the terminal open.               *)
RejectCodeKeepingTerminal(g) == [g EXCEPT !.playerPos = Nudge(g.playerPos)]

(* The state updater of a rejected code.                                   *)
RejectCode(g) == [g EXCEPT !.showTerminal = FALSE, !.playerPos = Nudge(g.playerPos)]

(* handlePasswordSubmit, the codes match.                                  *)
SubmitMatch(s) ==
    /\ impl = 1
    /\ TerminalShown(gs)
    /\ Len(inputCode) >= 4
    /\ inputCode = gs.password
    /\ gs.currentFloor < MaxFloor
    /\ gs' = nextFloor(gs, s)
    /\ inputCode' = << >>
    /\ detours' = 0
    /\ UNCHANGED <<impl, sinceLast, hasStarted>>

(* handlePasswordSubmit, the codes differ.                                 *)
SubmitMismatch ==
    /\ impl = 1
    /\ TerminalShown(gs)
    /\ Len(inputCode) >= 4
    /\ inputCode # gs.password
    /\ gs' = RejectCode(gs)
    /\ inputCode' = << >>
    /\ UNCHANGED <<impl, sinceLast, hasStarted, detours>>

(* handlePasswordSubmit                                                    *)
Submit == (\E s \in Streams : SubmitMatch(s)) \/ SubmitMismatch

(* A variant of resetGame() that starts over on the second floor.          *)
resetGameOnSecondFloor(s) == initFloor(2, 0, s)

(* resetGame()                                                             *)
resetGame(s) == initFloor(1, 0, s)

(* KeyR, or the restart button.                                            *)
Restart ==
    /\ impl = 1
    /\ \E s \in Streams : gs' = resetGame(s)
    /\ inputCode' = << >>
    /\ detours' = 0
    /\ UNCHANGED <<impl, sinceLast, hasStarted>>

Next ==
    \/ Tick
    \/ PauseToggle
    \/ Abort
    \/ \E c \in Codes(gs) : TypeCode(c)
    \/ Submit
    \/ Restart

Spec == Init1 /\ [][Next]_vars

(* The first Game taken up in the exit area: the player has walked for     *)
(* WalkTicks frames of a quiet floor, collecting nothing, to a clear place  *)
(* up to DoorReach strides of six steps from the south-east corner; the    *)
(* code is found or not; in the door's zone the terminal is open, or has   *)
(* been closed by its button.                                              *)
DoorReach == 2
WalkTicks == 170

RECURSIVE GuardsAfter(_, _)
GuardsAfter(guards, n) ==
    IF n = 0 THEN guards
    ELSE IF n = 1 THEN MoveGuards(guards)
    ELSE LET half == GuardsAfter(guards, n \div 2)
         IN  IF half = << >> THEN half ELSE GuardsAfter(half, n - n \div 2)

DoorXs == { EastCol - 6 * SPEED * k : k \in 0..DoorReach }
DoorYs == { CANVAS_HEIGHT - PLAYER_SIZE - 10 - 6 * SPEED * k : k \in 0..DoorReach }

InitDoor ==
    /\ impl = 1
    /\ \E f \in 1..MaxFloor, x \in DoorXs, y \in DoorYs, found \in BOOLEAN, open \in BOOLEAN :
          LET fresh == initFloor(f, 0, QuietStream)
              pos == [x |-> x, y |-> y]
              guards == GuardsAfter(fresh.guards, WalkTicks)
          IN  /\ ~collides(x, y, fresh.walls, PLAYER_SIZE)
              /\ ~Caught(guards, pos)
              /\ open => AtDoor(fresh, pos)
              /\ gs = [fresh EXCEPT !.playerPos = pos,
                                    !.guards = guards,
                                    !.foundPassword = found,
                                    !.showTerminal = open,
                                    !.timeLeft = InitialTime - WalkTicks]
    /\ inputCode = << >>
    /\ sinceLast = 0
    /\ hasStarted = TRUE
    /\ detours = 0

(* The south-east quarter of the canvas.                                   *)
InExitArea(pos) == pos.x > CANVAS_WIDTH \div 2 /\ pos.y > CANVAS_HEIGHT \div 2

(* The game is followed for as long as the player is in that quarter; the  *)
(* frames arrive on time or after a stall with the floor not live.         *)
NextDoor ==
    \/ InExitArea(gs.playerPos) /\ TickIdle
    \/ InExitArea(gs.playerPos) /\ \E i \in Intents : TickLive(i)
    \/ InExitArea(gs.playerPos) /\ PauseToggle
    \/ InExitArea(gs.playerPos) /\ Abort
    \/ InExitArea(gs.playerPos) /\ \E c \in Codes(gs) : TypeCode(c)
    \/ InExitArea(gs.playerPos) /\ Submit
    \/ InExitArea(gs.playerPos) /\ Restart

SpecDoor == InitDoor /\ [][NextDoor]_vars

(* The same with a guard that patrols past the door: the floor's first    *)
(* guard has drawn the lowest row and the longest path, and one of         *)
(* GuardDraws for its start; the player stands on the upper edge of the    *)
(* door's zone, the code not found.                                        *)
GuardDraws == { 170, 180, 190 }
EdgeXs == { EastCol - SPEED * k : k \in 0..12 }
EdgeYs == { TerminalRow - SPEED, TerminalRow, TerminalRow + SPEED }

InitGuardedDoor ==
    /\ impl = 1
    /\ \E f \in 1..MaxFloor, x \in EdgeXs, y \in EdgeYs, nx \in GuardDraws, open \in BOOLEAN :
          LET fresh == initFloor(f, 0, QuietStream)
              pos == [x |-> x, y |-> y]
              guards == GuardsAfter([fresh.guards EXCEPT ![1] = NewGuard(f, nx, 199, 199)],
                                    WalkTicks)
          IN  /\ ~collides(x, y, fresh.walls, PLAYER_SIZE)
              /\ ~Caught(guards, pos)
              /\ open => AtDoor(fresh, pos)
              /\ gs = [fresh EXCEPT !.playerPos = pos,
                                    !.guards = guards,
                                    !.showTerminal = open,
                                    !.timeLeft = InitialTime - WalkTicks]
    /\ inputCode = << >>
    /\ sinceLast = 0
    /\ hasStarted = TRUE
    /\ detours = 0

SpecGuardedDoor == InitGuardedDoor /\ [][NextDoor]_vars

----------------------------------------------------------------------------
(* Second Game: the level generator variants and the fixed-step loop.      *)

PLAYER_SIZE_2 == 20
SPEED_2 == 4
MONEY_MARGIN_2 == 20
TOUCH_TOLERANCE_2 == 20
TERMINAL_RADIUS_2 == 30
EXIT_RADIUS_2 == 20

SpawnPos2 == [x |-> 30, y |-> 30]
DoorPos2 == [x |-> CANVAS_WIDTH - 40, y |-> CANVAS_HEIGHT - 40]

generateWalls2(floor) ==
    Boundaries \o [j \in 1..NumObstacles(floor) |-> Obstacle(floor, j - 1, 40)]

NumGuards2(floor) == Min(1 + (floor \div 2), 5)

(* The fields a fresh floor of the second Game sets.                       *)
FloorFields2(floor, s) ==
    LET walls == generateWalls2(floor)
        m == MoneyFrom(floor, walls, MONEY_MARGIN_2, s, 0, 0)
    IN  [playerPos |-> SpawnPos2,
         currentFloor |-> floor,
         money |-> m.items,
         walls |-> walls,
         guards |-> GuardsOf(floor, NumGuards2(floor), s, m.next),
         password |-> generatePassword(s, m.next + 3 * NumGuards2(floor)),
         foundPassword |-> FALSE,
         doorPos |-> DoorPos2,
         timeLeft |-> InitialTime]

(* The useState initializer and resetGame().                               *)
FreshGame2(s) ==
    LET f == FloorFields2(1, s)
    IN  [playerPos |-> f.playerPos, currentFloor |-> 1, score |-> 0,
         money |-> f.money, walls |-> f.walls, guards |-> f.guards,
         password |-> f.password, foundPassword |-> FALSE, doorPos |-> f.doorPos,
         isPaused |-> FALSE, isGameOver |-> FALSE, showTerminal |-> FALSE,
         lastPasswordFound |-> << >>, timeLeft |-> InitialTime]

(* nextFloor(): the spread keeps score and the three flags of prev.        *)
NextFloor2(prev, s) ==
    LET f == FloorFields2(prev.currentFloor + 1, s)
    IN  [prev EXCEPT
            !.currentFloor = f.currentFloor, !.playerPos = f.playerPos,
            !.money = f.money, !.walls = f.walls, !.guards = f.guards,
            !.password = f.password, !.foundPassword = FALSE,
            !.doorPos = f.doorPos, !.timeLeft = f.timeLeft]

Directions == { "NONE", "UP", "DOWN", "LEFT", "RIGHT" }

(* A variant of the movement that only clamps.                             *)
MovePlayer2Clamped(pos, dir, walls) ==
    [x |-> Max(10, Min(CANVAS_WIDTH - PLAYER_SIZE_2 - 10,
                       pos.x + (IF dir = "RIGHT" THEN SPEED_2 ELSE 0) - (IF dir = "LEFT" THEN SPEED_2 ELSE 0))),
     y |-> Max(10, Min(CANVAS_HEIGHT - PLAYER_SIZE_2 - 10,
                       pos.y + (IF dir = "DOWN" THEN SPEED_2 ELSE 0) - (IF dir = "UP" THEN SPEED_2 ELSE 0)))]

MovePlayer2(pos, dir, walls) ==
    LET x0 == pos.x + (IF dir = "RIGHT" THEN SPEED_2 ELSE 0) - (IF dir = "LEFT" THEN SPEED_2 ELSE 0)
        y0 == pos.y + (IF dir = "DOWN" THEN SPEED_2 ELSE 0) - (IF dir = "UP" THEN SPEED_2 ELSE 0)
    IN  IF collides(x0, y0, walls, PLAYER_SIZE_2)
        THEN pos
        ELSE [x |-> Max(10, Min(CANVAS_WIDTH - PLAYER_SIZE_2 - 10, x0)),
              y |-> Max(10, Min(CANVAS_HEIGHT - PLAYER_SIZE_2 - 10, y0))]

(* The second Game compares the player's top-left corner with the point.   *)
Touches2(q, pos) ==
    /\ Abs(Scale * pos.x - q.x) < Scale * TOUCH_TOLERANCE_2
    /\ Abs(Scale * pos.y - q.y) < Scale * TOUCH_TOLERANCE_2

Collectable2(m, pos) == ~m.collected /\ Touches2(m.pos, pos)

CollectMoney2(money, pos) ==
    [j \in 1..Len(money) |->
        IF Collectable2(money[j], pos)
        THEN [money[j] EXCEPT !.collected = TRUE]
        ELSE money[j]]

RECURSIVE SumValues2(_, _, _)
SumValues2(money, pos, j) ==
    IF j > Len(money) THEN 0
    ELSE (IF Collectable2(money[j], pos) THEN money[j].value ELSE 0)
         + SumValues2(money, pos, j + 1)

Caught2(guards, pos) == \E j \in 1..Len(guards) : Touches2(guards[j].pos, pos)

(* distToDoor < r, on the squares.                                         *)
DoorWithin2(g, pos, r) ==
    (pos.x - g.doorPos.x) * (pos.x - g.doorPos.x)
        + (pos.y - g.doorPos.y) * (pos.y - g.doorPos.y) < r * r

(* A variant of the decay without the clamp at zero.                       *)
DecayTime2Unclamped(timeLeft) == timeLeft - 1

DecayTime2(timeLeft) == Max(0, timeLeft - 1)

(* The state updater of the 60 Hz interval.                                *)
Step2(prev, dir, s) ==
    LET newPos == MovePlayer2(prev.playerPos, dir, prev.walls)
        newGuards == MoveGuards(prev.guards)
    IN  IF Caught2(newGuards, newPos)
        THEN [prev EXCEPT !.isGameOver = TRUE]
        ELSE IF DoorWithin2(prev, newPos, TERMINAL_RADIUS_2) /\ ~prev.foundPassword
        THEN [prev EXCEPT !.showTerminal = TRUE, !.playerPos = newPos]
        ELSE IF prev.foundPassword /\ DoorWithin2(prev, newPos, EXIT_RADIUS_2)
        THEN NextFloor2(prev, s)
        ELSE [prev EXCEPT
                 !.playerPos = newPos,
                 !.score = prev.score + SumValues2(prev.money, newPos, 1),
                 !.money = CollectMoney2(prev.money, newPos),
                 !.guards = newGuards,
                 !.timeLeft = DecayTime2(prev.timeLeft)]

EastCol2 == CANVAS_WIDTH - PLAYER_SIZE_2 - 10
SouthRow2 == CANVAS_HEIGHT - PLAYER_SIZE_2 - 10

(* The scripted runs of the second Game: set off at once east along the   *)
(* top side and south along the east side to the exit, or wait at the     *)
(* spawn of the first floor until the time is up.                          *)
RouteDirs2(g) ==
    LET pos == g.playerPos
    IN  (IF pos = SpawnPos2 /\ g.timeLeft = InitialTime THEN { "RIGHT" } ELSE {})
        \cup (IF pos = SpawnPos2 /\ g.currentFloor = 1 THEN { "NONE" } ELSE {})
        \cup (IF pos.y = SpawnPos2.y /\ pos.x > SpawnPos2.x /\ pos.x < EastCol2 THEN { "RIGHT" } ELSE {})
        \cup (IF pos.x = EastCol2 /\ pos.y < SouthRow2 THEN { "DOWN" } ELSE {})

Init2 ==
    /\ impl = 2
    /\ \E s \in Streams : gs = FreshGame2(s)
    /\ inputCode = << >>
    /\ sinceLast = 0
    /\ hasStarted = FALSE
    /\ detours = 0

(* resetGame(): Begin Infiltration, Try Again, the restart button.         *)
Restart2 ==
    /\ impl = 2
    /\ \E s \in Streams : gs' = FreshGame2(s)
    /\ hasStarted' = TRUE
    /\ inputCode' = << >>
    /\ UNCHANGED <<impl, sinceLast, detours>>

Running2 == hasStarted /\ Live(gs)

(* One firing of the 60 Hz interval.                                       *)
Tick2(dir, s) ==
    /\ impl = 2
    /\ Running2
    /\ dir \in RouteDirs2(gs)
    /\ gs' = Step2(gs, dir, s)
    /\ gs'.currentFloor <= MaxFloor
    /\ UNCHANGED <<impl, inputCode, sinceLast, hasStarted, detours>>

(* One firing of the one-second interval.                                  *)
TimerEffect2 ==
    /\ impl = 2
    /\ Running2
    /\ gs' = IF gs.timeLeft <= 0 THEN [gs EXCEPT !.isGameOver = TRUE] ELSE gs
    /\ UNCHANGED <<impl, inputCode, sinceLast, hasStarted, detours>>

(* The p key (ignored while the terminal is open) and the pause button.    *)
PauseToggle2 ==
    /\ impl = 2
    /\ hasStarted
    /\ gs' = TogglePause(gs)
    /\ UNCHANGED <<impl, inputCode, sinceLast, hasStarted, detours>>

(* The Resume button of the pause overlay.                                 *)
Resume2 ==
    /\ impl = 2
    /\ hasStarted
    /\ gs.isPaused /\ ~gs.isGameOver
    /\ gs' = [gs EXCEPT !.isPaused = FALSE]
    /\ UNCHANGED <<impl, inputCode, sinceLast, hasStarted, detours>>

TerminalShown2 == hasStarted /\ gs.showTerminal

TypeCode2(c) ==
    /\ impl = 2
    /\ TerminalShown2
    /\ inputCode' = c
    /\ UNCHANGED <<impl, gs, sinceLast, hasStarted, detours>>

Abort2 ==
    /\ impl = 2
    /\ TerminalShown2
    /\ gs' = [gs EXCEPT !.showTerminal = FALSE]
    /\ UNCHANGED <<impl, inputCode, sinceLast, hasStarted, detours>>

(* handlePasswordSubmit of the second Game.                                *)
Submit2 ==
    /\ impl = 2
    /\ TerminalShown2
    /\ IF inputCode = gs.password
       THEN /\ gs' = [gs EXCEPT !.foundPassword = TRUE, !.showTerminal = FALSE]
            /\ inputCode' = inputCode
       ELSE /\ gs' = [gs EXCEPT !.showTerminal = FALSE]
            /\ inputCode' = << >>
    /\ UNCHANGED <<impl, sinceLast, hasStarted, detours>>

Next2 ==
    \/ Restart2
    \/ \E dir \in Directions, s \in Streams : Tick2(dir, s)
    \/ TimerEffect2
    \/ PauseToggle2
    \/ Resume2
    \/ \E c \in Codes(gs) : TypeCode2(c)
    \/ Abort2
    \/ Submit2

Spec2 == Init2 /\ [][Next2]_vars

(* The second Game's generateMoney: the margin is 20.                      *)
generateMoney2(floor, walls, s, k) == MoneyFrom(floor, walls, MONEY_MARGIN_2, s, k, 0)

(* Either Game component.                                                  *)
SpecBoth == (Init1 \/ Init2) /\ [][Next \/ Next2]_vars

(* The player of the second Game walking freely: only the floor and the    *)
(* position are followed, on the floors 1..MaxGenFloor; guards, money, the *)
(* timer and the terminal are left out, and the code may or may not have   *)
(* been found when the exit is reached.                                    *)
InitWalk2 ==
    /\ impl = 7
    /\ gs = [floor |-> 1, pos |-> SpawnPos2]
    /\ inputCode = << >>
    /\ sinceLast = 0
    /\ hasStarted = TRUE
    /\ detours = 0

(* A firing of the 60 Hz interval: the move, and the floor advance at the  *)
(* exit.                                                                   *)
Walk2(dir, found) ==
    /\ impl = 7
    /\ LET newPos == MovePlayer2(gs.pos, dir, generateWalls2(gs.floor))
       IN  IF found /\ DoorWithin2([doorPos |-> DoorPos2], newPos, EXIT_RADIUS_2)
           THEN /\ gs.floor < MaxGenFloor
                /\ gs' = [floor |-> gs.floor + 1, pos |-> SpawnPos2]
           ELSE gs' = [gs EXCEPT !.pos = newPos]
    /\ UNCHANGED <<impl, inputCode, sinceLast, hasStarted, detours>>

(* resetGame()                                                             *)
RestartWalk2 ==
    /\ impl = 7
    /\ gs' = [floor |-> 1, pos |-> SpawnPos2]
    /\ UNCHANGED <<impl, inputCode, sinceLast, hasStarted, detours>>

NextWalk2 ==
    \/ \E dir \in Directions, found \in BOOLEAN : Walk2(dir, found)
    \/ RestartWalk2

SpecWalk2 == InitWalk2 /\ [][NextWalk2]_vars

----------------------------------------------------------------------------
(* The floor starts of the first Game on their own: every caller of        *)
(* initFloor (start and restart, accepted code, timeout), on the floors    *)
(* 1..MaxSpawnFloor.  The play between two starts is left out but for the  *)
(* number of items it collected.                                           *)

MaxSpawnFloor == 7
MaxSpawnScore == 2000

(* Items collected on a floor before its next start.                       *)
Loot == 0..2

Looted(g, n) == [g EXCEPT !.score = g.score + n * 100 * g.currentFloor]

InitSpawn ==
    /\ impl = 8
    /\ \E s \in Streams : gs = resetGame(s)
    /\ inputCode = << >>
    /\ sinceLast = 0
    /\ hasStarted = TRUE
    /\ detours = 0

(* handlePasswordSubmit with the floor's code: nextFloor().                *)
SpawnAdvance(s, n) ==
    /\ impl = 8
    /\ gs.currentFloor < MaxSpawnFloor
    /\ Looted(gs, n).score <= MaxSpawnScore
    /\ gs' = nextFloor(Looted(gs, n), s)
    /\ UNCHANGED <<impl, inputCode, sinceLast, hasStarted, detours>>

(* update() when the time is up: initFloor(currentFloor, max(0, score - 500)). *)
SpawnTimeout(s, n) ==
    /\ impl = 8
    /\ Looted(gs, n).score <= MaxSpawnScore
    /\ LET g == Looted(gs, n)
       IN  gs' = initFloor(g.currentFloor, TimeoutScore(g.score), s)
    /\ UNCHANGED <<impl, inputCode, sinceLast, hasStarted, detours>>

(* resetGame().                                                            *)
SpawnRestart(s) ==
    /\ impl = 8
    /\ gs' = resetGame(s)
    /\ UNCHANGED <<impl, inputCode, sinceLast, hasStarted, detours>>

NextSpawn ==
    \/ \E s \in Streams, n \in Loot : SpawnAdvance(s, n)
    \/ \E s \in Streams, n \in Loot : SpawnTimeout(s, n)
    \/ \E s \in Streams : SpawnRestart(s)

SpecSpawn == InitSpawn /\ [][NextSpawn]_vars

----------------------------------------------------------------------------
(* The first Game with no key ever pressed: the player stays where the     *)
(* floor put it while the guards patrol and the time runs out, on the      *)
(* floors 1..MaxSpawnFloor.  The first guard starts on its topmost or      *)
(* lowest row, at the west end of its range.                               *)

RowDraws == { 0, 199 }

InitStay ==
    /\ impl = 1
    /\ \E f \in 1..MaxSpawnFloor, s \in Streams, ny \in RowDraws :
          LET fresh == initFloor(f, 0, s)
          IN  gs = [fresh EXCEPT !.guards[1] = NewGuard(f, 0, ny, 0)]
    /\ inputCode = << >>
    /\ sinceLast = 0
    /\ hasStarted = TRUE
    /\ detours = 0

(* A frame with no key down.                                               *)
TickStay(s) ==
    /\ impl = 1
    /\ Live(gs)
    /\ gs' = Step(gs, sinceLast + 1, {}, s)
    /\ sinceLast' = 0
    /\ UNCHANGED <<impl, inputCode, hasStarted, detours>>

NextStay == \E s \in Streams : TickStay(s)

SpecStay == InitStay /\ [][NextStay]_vars

----------------------------------------------------------------------------
(* The level generator on its own: the four generator calls of a floor     *)
(* initialization, in the order of the code, for either Game (variant),    *)
(* on the floors 1..MaxGenFloor and with each stream of draws.             *)

GenFloors == 1..MaxGenFloor
Variants == { 1, 2 }

InitGen ==
    /\ impl = 3
    /\ \E v \in Variants, f \in GenFloors, s \in Streams :
          gs = [variant |-> v, floor |-> f, stream |-> s, stage |-> "floor",
                walls |-> << >>, money |-> << >>, guards |-> << >>,
                password |-> << >>, next |-> 0]
    /\ inputCode = << >>
    /\ sinceLast = 0
    /\ hasStarted = FALSE
    /\ detours = 0

(* const walls = generateWalls(floor)                                      *)
GenWalls ==
    /\ impl = 3
    /\ gs.stage = "floor"
    /\ gs' = [gs EXCEPT
                 !.walls = IF gs.variant = 1 THEN generateWalls(gs.floor)
                           ELSE generateWalls2(gs.floor),
                 !.stage = "walls"]
    /\ UNCHANGED <<impl, inputCode, sinceLast, hasStarted, detours>>

(* generateMoney(floor, walls)                                             *)
GenMoney ==
    /\ impl = 3
    /\ gs.stage = "walls"
    /\ LET m == IF gs.variant = 1
                THEN generateMoney(gs.floor, gs.walls, gs.stream, gs.next)
                ELSE generateMoney2(gs.floor, gs.walls, gs.stream, gs.next)
       IN  gs' = [gs EXCEPT !.money = m.items, !.next = m.next, !.stage = "money"]
    /\ UNCHANGED <<impl, inputCode, sinceLast, hasStarted, detours>>

(* generateGuards(floor, walls)                                            *)
GenGuards ==
    /\ impl = 3
    /\ gs.stage = "money"
    /\ LET n == IF gs.variant = 1 THEN NumGuards(gs.floor) ELSE NumGuards2(gs.floor)
       IN  gs' = [gs EXCEPT !.guards = GuardsOf(gs.floor, n, gs.stream, gs.next),
                            !.next = gs.next + 3 * n,
                            !.stage = "guards"]
    /\ UNCHANGED <<impl, inputCode, sinceLast, hasStarted, detours>>

(* generatePassword()                                                      *)
GenPassword ==
    /\ impl = 3
    /\ gs.stage = "guards"
    /\ gs' = [gs EXCEPT !.password = generatePassword(gs.stream, gs.next),
                        !.next = gs.next + 1,
                        !.stage = "password"]
    /\ UNCHANGED <<impl, inputCode, sinceLast, hasStarted, detours>>

NextGen == GenWalls \/ GenMoney \/ GenGuards \/ GenPassword

SpecGen == InitGen /\ [][NextGen]_vars

----------------------------------------------------------------------------
(* The rejection loop of generateMoney, one iteration at a time: whatever  *)
(* Math.random() returns, draw by draw.                                    *)

(* Values of Math.random() (over RandDen) a draw may return.               *)
DrawValues == { 10, 60, 110, 160 }

InitPlace ==
    /\ impl = 4
    /\ \E v \in Variants, f \in GenFloors :
          gs = [variant |-> v, floor |-> f,
                walls |-> IF v = 1 THEN generateWalls(f) ELSE generateWalls2(f),
                i |-> 0, pos |-> [x |-> 0, y |-> 0], valid |-> FALSE,
                stage |-> "loop"]
    /\ inputCode = << >>
    /\ sinceLast = 0
    /\ hasStarted = FALSE
    /\ detours = 0

(* One pass of the body of while (!valid): draw pos, test it.              *)
Redraw(nx, ny) ==
    /\ impl = 4
    /\ gs.stage = "loop"
    /\ ~gs.valid
    /\ LET pos == MoneyPoint(nx, ny)
           margin == IF gs.variant = 1 THEN MONEY_MARGIN ELSE MONEY_MARGIN_2
       IN  gs' = [gs EXCEPT !.pos = pos, !.valid = ~NearWall(pos, gs.walls, margin)]
    /\ UNCHANGED <<impl, inputCode, sinceLast, hasStarted, detours>>

(* money.push(...) and the next round of the for loop, or its end.         *)
PushItem ==
    /\ impl = 4
    /\ gs.stage = "loop"
    /\ gs.valid
    /\ gs' = [gs EXCEPT
                 !.i = gs.i + 1,
                 !.valid = FALSE,
                 !.pos = [x |-> 0, y |-> 0],
                 !.stage = IF gs.i + 1 < NumBills(gs.floor) THEN "loop" ELSE "done"]
    /\ UNCHANGED <<impl, inputCode, sinceLast, hasStarted, detours>>

Iterate == \E nx \in DrawValues, ny \in DrawValues : Redraw(nx, ny)

NextPlace == Iterate \/ PushItem

SpecPlace == InitPlace /\ [][NextPlace]_vars

(* The loop keeps running: an iteration that can be taken is taken; which  *)
(* point it draws is left open.                                            *)
SpecPlaceFair == SpecPlace /\ WF_vars(Iterate) /\ WF_vars(PushItem)

(* Fair random draws: a point that keeps being possible is drawn at some   *)
(* time.                                                                   *)
SpecPlaceFairDraws ==
    /\ SpecPlace
    /\ WF_vars(PushItem)
    /\ \A nx \in DrawValues, ny \in DrawValues : WF_vars(Redraw(nx, ny))

----------------------------------------------------------------------------
(* The motion of the first Game on its own: one movement update from each  *)
(* place of the 5-pixel lattice the player walks on where the footprint    *)
(* is clear, on the floors 1..MaxFloor, under each set of held keys.       *)

MoveXs == { 10 + SPEED * k : k \in 0..((CANVAS_WIDTH - PLAYER_SIZE - 20) \div SPEED) }
MoveYs == { 10 + SPEED * k : k \in 0..((CANVAS_HEIGHT - PLAYER_SIZE - 20) \div SPEED) }

InitMove ==
    /\ impl = 5
    /\ \E f \in 1..MaxFloor, x \in MoveXs, y \in MoveYs, i \in Intents :
          /\ ~collides(x, y, generateWalls(f), PLAYER_SIZE)
          /\ gs = [floor |-> f, pos |-> [x |-> x, y |-> y], intent |-> i,
                   stage |-> "held", newPos |-> [x |-> x, y |-> y]]
    /\ inputCode = << >>
    /\ sinceLast = 0
    /\ hasStarted = FALSE
    /\ detours = 0

(* The movement update of one tick.                                        *)
ApplyMove ==
    /\ impl = 5
    /\ gs.stage = "held"
    /\ gs' = [gs EXCEPT !.newPos = MovePlayer(gs.pos, gs.intent, generateWalls(gs.floor)),
                        !.stage = "moved"]
    /\ UNCHANGED <<impl, inputCode, sinceLast, hasStarted, detours>>

SpecMove == InitMove /\ [][ApplyMove]_vars

----------------------------------------------------------------------------
(* The patrol on its own: one guard of a floor in 1..MaxPatrolFloor, as    *)
(* generateGuards builds it, walked tick by tick.                          *)

(* Draws for the start of the path, and for its width: the shortest, a     *)
(* short one, the middle and the longest.                                  *)
StartDraws == { 0, 199 }
WidthDraws == { 0, 25, 100, 199 }

InitPatrol ==
    /\ impl = 6
    /\ \E f \in 1..MaxPatrolFloor, nx \in StartDraws, ny \in StartDraws, nw \in WidthDraws :
          gs = [floor |-> f, guard |-> NewGuard(f, nx, ny, nw)]
    /\ inputCode = << >>
    /\ sinceLast = 0
    /\ hasStarted = FALSE
    /\ detours = 0

(* The guard's part of one live tick.                                      *)
PatrolTick ==
    /\ impl = 6
    /\ gs' = [gs EXCEPT !.guard = PatrolStep(gs.guard)]
    /\ UNCHANGED <<impl, inputCode, sinceLast, hasStarted, detours>>

SpecPatrol == InitPatrol /\ [][PatrolTick]_vars

(* Live ticks keep occurring.                                              *)
SpecPatrolFair == SpecPatrol /\ WF_vars(PatrolTick)

----------------------------------------------------------------------------
(* Properties of the first Game.                                           *)

FootprintClear(g) == ~collides(g.playerPos.x, g.playerPos.y, g.walls, PLAYER_SIZE)

(* The frame's elapsed time uses up the floor's remaining time.            *)
TimesOut(g, dt) == g.timeLeft - dt <= 0

(* After the frame's moves a guard is within the capture tolerance.        *)
CaptureOn(g, i) == Caught(MoveGuards(g.guards), MovePlayer(g.playerPos, i, g.walls))

(* A live frame that neither times out nor ends in capture.                *)
PlainTick(i) ==
    /\ Allowed(gs, i)
    /\ ~TimesOut(gs, sinceLast + 1)
    /\ ~CaptureOn(gs, i)
    /\ TickLive(i)

(* C1: after every tick of the first Game that runs the state updater the *)
(* player's footprint overlaps no wall rectangle.                          *)
C1_FootprintClearAfterTick ==
    [][((\E i \in Intents : TickLive(i)) \/ (\E s \in Streams : TickStall(s)))
          => FootprintClear(gs')]_vars

(* C2: a live tick after whose guard move a guard is within the capture   *)
(* tolerance sets isGameOver on that tick, and isGameOver then stays true *)
(* under every step other than a restart.                                  *)
C2_CaptureIsTerminal ==
    [][/\ (impl = 1 /\ ~gs.isGameOver /\ ~TimesOut(gs, sinceLast + 1)) =>
              (gs'.isGameOver \/ \A i \in Intents : ~(CaptureOn(gs, i) /\ TickLive(i)))
       /\ (gs.isGameOver /\ ~Restart) => gs'.isGameOver]_vars

(* C2 happens: the game is over and a frame has passed since.              *)
C2_Witness == impl = 1 /\ gs.isGameOver /\ sinceLast > 0

AllUncollected(money) == \A j \in 1..Len(money) : ~money[j].collected
GuardsAtStart(guards) ==
    \A j \in 1..Len(guards) : guards[j].pos = guards[j].path[1] /\ guards[j].currentPathIndex = 0

(* The floor of g started over as h: the score cut by 500 but not below   *)
(* zero, the same floor index and walls, money uncollected, guards at     *)
(* their starts, a generated password, foundPassword false, the player at *)
(* the spawn, timeLeft 60, not game over.                                  *)
StartedOver(g, h) ==
    /\ h.score = Max(0, g.score - 500)
    /\ h.currentFloor = g.currentFloor
    /\ ~h.foundPassword
    /\ h.playerPos = SpawnPos
    /\ h.timeLeft = INITIAL_TIME_PER_FLOOR * TimeScale
    /\ ~h.isGameOver
    /\ h.walls = generateWalls(g.currentFloor)
    /\ AllUncollected(h.money)
    /\ GuardsAtStart(h.guards)
    /\ \E r \in Streams : h = initFloor(g.currentFloor, h.score, r)

(* C3: a live tick that brings timeLeft to 0 or below yields the same     *)
(* floor regenerated: score max(0, score - 500), floor index unchanged,   *)
(* money uncollected, guards at their starts, a generated password,       *)
(* foundPassword false, player at the spawn, timeLeft 60, not game over.   *)
C3_TimeoutRegeneratesFloor ==
    [][/\ \A s \in Streams : TickStall(s) => StartedOver(gs, gs')
       /\ (impl = 1 /\ Live(gs) /\ TimesOut(gs, sinceLast + 1)) =>
              (StartedOver(gs, gs') \/ \A i \in Intents : ~TickLive(i))]_vars

(* C3 happens: the second floor starts over with the score of 800 cut to  *)
(* 300.                                                                    *)
C3_Witness ==
    /\ impl = 1 /\ gs.currentFloor = 2 /\ gs.score = 300
    /\ gs.playerPos = SpawnPos /\ gs.timeLeft = InitialTime

(* C4: submitting the floor's code with the terminal open closes the      *)
(* terminal, raises the floor index by one, sets timeLeft to 60 and keeps *)
(* the score.                                                              *)
C4_MatchAdvances ==
    [][(\E s \in Streams : SubmitMatch(s)) =>
          /\ ~gs'.showTerminal
          /\ gs'.currentFloor = gs.currentFloor + 1
          /\ gs'.timeLeft = INITIAL_TIME_PER_FLOOR * TimeScale
          /\ gs'.score = gs.score]_vars

(* C4 happens: the second floor begins with the score of the first.        *)
C4_Witness ==
    /\ impl = 1 /\ gs.currentFloor = 2 /\ gs.score = 200
    /\ gs.playerPos = SpawnPos /\ gs.timeLeft = InitialTime /\ ~gs.showTerminal

(* C5: submitting another code with the terminal open closes the terminal *)
(* and leaves floor index, score, password, foundPassword, money, guards, *)
(* walls and timeLeft unchanged; the game is not over.                     *)
C5_MismatchKeepsFloor ==
    [][SubmitMismatch =>
          /\ ~gs'.showTerminal
          /\ gs'.currentFloor = gs.currentFloor
          /\ gs'.score = gs.score
          /\ gs'.password = gs.password
          /\ gs'.foundPassword = gs.foundPassword
          /\ gs'.money = gs.money
          /\ gs'.guards = gs.guards
          /\ gs'.walls = gs.walls
          /\ gs'.timeLeft = gs.timeLeft
          /\ ~gs'.isGameOver]_vars

(* C5 happens: the terminal is closed, the player stands at the nudged    *)
(* place and the floor's time has not moved since the terminal opened.     *)
C5_Witness ==
    /\ impl = 1 /\ ~gs.showTerminal /\ ~gs.isGameOver
    /\ gs.playerPos = Nudge([x |-> EastCol, y |-> gs.doorPos.y - 50])
    /\ gs.timeLeft < InitialTime

(* The uncollected items within 25 on both axes of the centre of the      *)
(* player standing at pos.                                                 *)
InReach(money, pos) ==
    { j \in 1..Len(money) :
        /\ ~money[j].collected
        /\ Abs(Scale * (pos.x + PLAYER_SIZE \div 2) - money[j].pos.x) < Scale * 25
        /\ Abs(Scale * (pos.y + PLAYER_SIZE \div 2) - money[j].pos.y) < Scale * 25 }

RECURSIVE ValueSum(_, _)
ValueSum(money, J) ==
    IF J = {} THEN 0
    ELSE LET j == CHOOSE k \in J : TRUE
         IN  money[j].value + ValueSum(money, J \ {j})

C7_IdleTickChangesNothing ==
    [][((gs.isPaused \/ gs.isGameOver \/ gs.showTerminal) /\ Tick) => gs' = gs]_vars

(* C7 happens: the terminal is open and a frame has passed since.          *)
C7_Witness == impl = 1 /\ gs.showTerminal /\ ~gs.isPaused /\ ~gs.isGameOver /\ sinceLast > 0

(* C8: a live tick whose frame arrives on time, 1/60 s after the last,    *)
(* lowers timeLeft by no more than that: time that passed while the floor *)
(* was not live is not deducted, and with more than 1/60 s left the floor *)
(* does not time out and the score is not cut.                             *)
C8_IdleTimeNotDeducted ==
    [][(Live(gs) /\ gs.timeLeft > 1 /\ \E i \in Intents : TickLive(i))
          => /\ gs'.timeLeft >= gs.timeLeft - 1
             /\ gs'.timeLeft <= gs.timeLeft
             /\ gs'.score >= gs.score]_vars

(* C9: once isGameOver is true, every step other than a restart leaves    *)
(* the whole game state unchanged, isPaused and showTerminal included.     *)
C9_GameOverFreezesState == [][(gs.isGameOver /\ ~Restart) => gs' = gs]_vars

(* C10: in both Games timeLeft is never negative.                          *)
C10_TimeLeftNonNegative == gs.timeLeft >= 0

(* C10 happens: the second Game's clock has run down to zero and stays    *)
(* there while the loop goes on.                                           *)
C10_Witness == impl = 2 /\ hasStarted /\ gs.timeLeft = 0 /\ ~gs.isGameOver

----------------------------------------------------------------------------
(* Properties of the guards.                                               *)

(* C11: in every reachable state of either Game every guard's             *)
(* currentPathIndex is at least 0 and below the length of its path, so    *)
(* the waypoint it heads for exists.                                       *)
C11_PathIndexInRange ==
    \A j \in 1..Len(gs.guards) :
        /\ gs.guards[j].currentPathIndex >= 0
        /\ gs.guards[j].currentPathIndex < Len(gs.guards[j].path)

(* C11 happens: a guard has walked to the far waypoint, wrapped its index *)
(* to 0 and is on its way back.                                            *)
C11_Witness ==
    \E j \in 1..Len(gs.guards) :
        /\ gs.guards[j].currentPathIndex = 0
        /\ gs.guards[j].pos.x > gs.guards[j].path[1].x
        /\ gs.guards[j].pos.x < gs.guards[j].path[2].x

----------------------------------------------------------------------------
(* Properties of a floor instance, first Game.                             *)

(* The step is a tick that times out.                                      *)
TimeoutTick ==
    \/ \E s \in Streams : TickStall(s)
    \/ TimesOut(gs, sinceLast + 1) /\ \E i \in Intents : TickLive(i)

(* The step runs initFloor: a restart, an accepted code, or a tick that    *)
(* times out.                                                              *)
FloorInit ==
    \/ Restart
    \/ \E s \in Streams : SubmitMatch(s)
    \/ TimeoutTick

(* A collected flag or foundPassword goes from true to false in the step.  *)
FlagReverts ==
    \/ gs.foundPassword /\ ~gs'.foundPassword
    \/ \E j \in 1..Len(gs.money) :
          gs.money[j].collected /\ (j > Len(gs'.money) \/ ~gs'.money[j].collected)

(* C12: in the first Game a money item's collected flag and foundPassword *)
(* go from true back to false only in a step that initializes a floor:    *)
(* ticks, pause, abort and rejected codes never revert them.               *)
C12_FlagsNeverRevert == [][(impl = 1 /\ FlagReverts) => FloorInit]_vars

(* C12 happens: the code has been found, an item has been collected and   *)
(* the game was paused afterwards, for a while.                            *)
C12_Witness ==
    /\ impl = 1 /\ gs.foundPassword /\ gs.isPaused /\ sinceLast > 0
    /\ \E j \in 1..Len(gs.money) : gs.money[j].collected

(* C13: in the first Game the player's top-left corner always satisfies   *)
(* 10 <= x <= 560 and 10 <= y <= 360, the nudge of a rejected code         *)
(* included.                                                               *)
C13_PlayerInsideInterior ==
    impl = 1 =>
        /\ gs.playerPos.x >= 10
        /\ gs.playerPos.x <= CANVAS_WIDTH - PLAYER_SIZE - 10
        /\ gs.playerPos.y >= 10
        /\ gs.playerPos.y <= CANVAS_HEIGHT - PLAYER_SIZE - 10

(* C13 happens: on the second floor a code was rejected at the east side   *)
(* and the player stands where the nudge put them.                         *)
C13_Witness ==
    /\ impl = 1 /\ gs.currentFloor = 2 /\ Live(gs) /\ inputCode = << >>
    /\ gs.playerPos = Nudge([x |-> CANVAS_WIDTH - PLAYER_SIZE - 10, y |-> TerminalRow])

(* C14: in the first Game the score is never negative, and it goes down   *)
(* only in a restart or in the reset of a timed-out floor.                 *)
C14_ScoreNonNegativeMonotone ==
    /\ [](impl = 1 => gs.score >= 0)
    /\ [][(impl = 1 /\ gs'.score < gs.score) => (Restart \/ TimeoutTick)]_vars

(* C14 happens: the second floor, entered with a score of at least 200,   *)
(* timed out with less than the penalty on the account and starts over    *)
(* with a score of 0.                                                      *)
C14_Witness ==
    /\ impl = 1 /\ gs.currentFloor = 2 /\ gs.score = 0
    /\ gs.playerPos = SpawnPos /\ gs.timeLeft = InitialTime

----------------------------------------------------------------------------
(* Properties of the commands.                                             *)

(* C15: after a pause toggle, in either Game, a second toggle issued at   *)
(* once gives back the state before the first: isPaused has its original  *)
(* value and every other field of the game state is as it was.             *)
C15_TogglingTwiceRestores ==
    [][(PauseToggle \/ PauseToggle2) =>
          /\ TogglePause(gs') = gs
          /\ TogglePause(gs').isPaused = gs.isPaused]_vars

(* C15 happens: the first Game was paused in the middle of a floor, with  *)
(* money collected and time used.                                          *)
C15_Witness ==
    /\ impl = 1 /\ gs.isPaused /\ ~gs.isGameOver /\ ~gs.showTerminal
    /\ gs.score > 0 /\ gs.timeLeft < InitialTime /\ sinceLast = 0

(* C16: a restart of the first Game, from whatever state, yields floor 1, *)
(* score 0, isGameOver, isPaused, showTerminal and foundPassword false,   *)
(* timeLeft 60 and the player at the spawn (50,50).                        *)
C16_RestartStartsOver ==
    [][Restart =>
          /\ gs'.currentFloor = 1
          /\ gs'.score = 0
          /\ ~gs'.isGameOver /\ ~gs'.isPaused /\ ~gs'.showTerminal
          /\ ~gs'.foundPassword
          /\ gs'.timeLeft = 60 * TimeScale
          /\ gs'.playerPos = [x |-> 50, y |-> 50]]_vars

(* C16 happens: a fresh first floor is live although the wall clock ran   *)
(* on while the floor was not live (paused, at the terminal, or over).     *)
C16_Witness ==
    /\ impl = 1 /\ Live(gs) /\ sinceLast > 0
    /\ gs.currentFloor = 1 /\ gs.score = 0 /\ gs.playerPos = SpawnPos
    /\ gs.timeLeft = InitialTime /\ GuardsAtStart(gs.guards)

(* What initFloor leaves behind on floor h.currentFloor: generated walls,  *)
(* money, guards and password, nothing collected, every guard at path[0]  *)
(* with index 0, foundPassword false, timeLeft 60, no flag set.            *)
FreshFloor(h) ==
    /\ ~h.foundPassword
    /\ h.timeLeft = 60 * TimeScale
    /\ ~h.isPaused /\ ~h.isGameOver /\ ~h.showTerminal
    /\ Len(h.money) = 5 + 2 * h.currentFloor
    /\ \A j \in 1..Len(h.money) : ~h.money[j].collected
    /\ Len(h.guards) >= 1
    /\ \A j \in 1..Len(h.guards) :
          h.guards[j].currentPathIndex = 0 /\ h.guards[j].pos = h.guards[j].path[1]
    /\ Len(h.password) = 4
    /\ h.walls = generateWalls(h.currentFloor)

(* C17: every floor initialization of the first Game (the game start, an  *)
(* accepted code, a timeout) leaves a fresh floor and carries over only   *)
(* the floor index (raised by one by an accepted code) and the score.      *)
C17_InitFloorReplacesFloor ==
    /\ Init1 => (FreshFloor(gs) /\ gs.currentFloor = 1 /\ gs.score = 0)
    /\ [][((\E s \in Streams : SubmitMatch(s)) =>
                (FreshFloor(gs') /\ gs'.currentFloor = gs.currentFloor + 1
                    /\ gs'.score = gs.score))
           /\ (TimeoutTick =>
                (FreshFloor(gs') /\ gs'.currentFloor = gs.currentFloor))]_vars

(* C17 happens: the second floor has just been entered with more than the *)
(* least score: nine items, none collected, two guards at their starts.   *)
C17_Witness ==
    /\ impl = 1 /\ gs.currentFloor = 2 /\ gs.score > 200
    /\ gs.timeLeft = InitialTime /\ gs.playerPos = SpawnPos
    /\ Len(gs.money) = 9 /\ AllUncollected(gs.money)
    /\ Len(gs.guards) = 2 /\ GuardsAtStart(gs.guards)

----------------------------------------------------------------------------
(* Properties of the level generator.                                      *)

(* The walls are the four boundary rectangles of thickness 10 followed by *)
(* min(3 + floor, 8) obstacles, obstacle i at the seeded place and with   *)
(* width and height in lo..lo+99.                                          *)
WallsAsSpecified(walls, floor, lo) ==
    LET n == IF 3 + floor < 8 THEN 3 + floor ELSE 8
    IN  /\ Len(walls) = 4 + n
        /\ walls[1] = [x |-> 0, y |-> 0, w |-> 600, h |-> 10]
        /\ walls[2] = [x |-> 0, y |-> 390, w |-> 600, h |-> 10]
        /\ walls[3] = [x |-> 0, y |-> 0, w |-> 10, h |-> 400]
        /\ walls[4] = [x |-> 590, y |-> 0, w |-> 10, h |-> 400]
        /\ \A i \in 0..(n - 1) :
              /\ walls[5 + i].x = 50 + ((floor * 12345 + i * 150) % (600 - 150))
              /\ walls[5 + i].y = 50 + ((floor * 12345 + i * 100) % (400 - 150))
              /\ walls[5 + i].w \in lo..(lo + 99)
              /\ walls[5 + i].h \in lo..(lo + 99)

(* C18 as stated: generateWalls of either Game returns the four boundary  *)
(* rectangles and min(3 + floor, 8) seeded obstacles with width and       *)
(* height in 20..119.                                                      *)
C18_WallsAsStated ==
    (impl = 3 /\ gs.stage # "floor") => WallsAsSpecified(gs.walls, gs.floor, 20)

(* C18 amended: the obstacles' width and height are in 20..119 in the     *)
(* first Game and in 40..139 in the second; boundaries, obstacle count    *)
(* and obstacle places are as stated in both.                              *)
C18_WallsPerGame ==
    (impl = 3 /\ gs.stage # "floor") =>
        WallsAsSpecified(gs.walls, gs.floor, IF gs.variant = 1 THEN 20 ELSE 40)

(* C18 happens: walls generated for a floor on which the cap of 8         *)
(* obstacles binds, in the second Game, one obstacle wider than 119.       *)
C18_Witness ==
    /\ impl = 3 /\ gs.stage = "walls" /\ gs.variant = 2 /\ 3 + gs.floor > 8
    /\ Len(gs.walls) = 12
    /\ \E j \in 5..12 : gs.walls[j].w > 119

(* The money of the floor has been generated.                              *)
MoneyGenerated == impl = 3 /\ gs.stage \in { "money", "guards", "password" }

(* C19: generateMoney returns exactly 5 + 2*floor items, each with value  *)
(* 100*floor and collected false.                                          *)
C19_MoneyCountAndValue ==
    MoneyGenerated =>
        /\ Len(gs.money) = 5 + 2 * gs.floor
        /\ \A j \in 1..Len(gs.money) :
              gs.money[j].value = 100 * gs.floor /\ gs.money[j].collected = FALSE

(* C19 happens: the money of a floor beyond the first has been generated, *)
(* at least eleven items.                                                  *)
C19_Witness ==
    /\ MoneyGenerated /\ gs.stage = "money" /\ gs.floor >= 3
    /\ Len(gs.money) >= 11

(* C20: every generated money item lies in the sampling region, 40 <= x < *)
(* CANVAS_WIDTH - 40 and 40 <= y < CANVAS_HEIGHT - 40, and not inside any *)
(* wall rectangle of the floor expanded on all sides by the margin (15 in *)
(* the first Game, 20 in the second).                                      *)
C20_MoneyClearOfWalls ==
    MoneyGenerated =>
        LET margin == IF gs.variant = 1 THEN 15 ELSE 20
        IN  \A j \in 1..Len(gs.money) :
              LET p == gs.money[j].pos
              IN  /\ p.x >= Scale * 40 /\ p.x < Scale * (600 - 40)
                  /\ p.y >= Scale * 40 /\ p.y < Scale * (400 - 40)
                  /\ \A k \in 1..Len(gs.walls) :
                        \/ p.x <= Scale * (gs.walls[k].x - margin)
                        \/ p.x >= Scale * (gs.walls[k].x + gs.walls[k].w + margin)
                        \/ p.y <= Scale * (gs.walls[k].y - margin)
                        \/ p.y >= Scale * (gs.walls[k].y + gs.walls[k].h + margin)

(* C20 happens: the money of a floor has been generated and the loop had  *)
(* to redraw: more draw pairs were used than there are items.              *)
C20_Witness ==
    /\ MoneyGenerated /\ gs.stage = "money"
    /\ gs.next > 2 * Len(gs.money)
    /\ Len(gs.money) > 0

(* C21: the placement of the money ends, whatever points are drawn: the   *)
(* rejection loop of no item runs forever.                                 *)
C21_PlacementEnds == <>(impl = 4 /\ gs.stage = "done")

----------------------------------------------------------------------------
(* Properties of the motion.                                               *)

(* The 30 x 30 footprint at (x, y) overlaps a wall of the floor.           *)
Blocked(x, y, floor) ==
    LET walls == generateWalls(floor)
    IN  \E j \in 1..Len(walls) :
          /\ x < walls[j].x + walls[j].w /\ walls[j].x < x + 30
          /\ y < walls[j].y + walls[j].h /\ walls[j].y < y + 30

HeldX(i) == IF "right" \in i /\ "left" \notin i THEN 5
            ELSE IF "left" \in i /\ "right" \notin i THEN -5 ELSE 0
HeldY(i) == IF "down" \in i /\ "up" \notin i THEN 5
            ELSE IF "up" \in i /\ "down" \notin i THEN -5 ELSE 0

(* C23: the motion of the first Game resolves each axis on its own: the   *)
(* deltas are +-5 per axis; the X move is kept iff (x+dx, y) overlaps no  *)
(* wall, the Y move iff (x, y+dy) overlaps none, and if both are kept but *)
(* (x+dx, y+dy) overlaps a wall the player stays at (x, y).                *)
C23_AxesResolveIndependently ==
    (impl = 5 /\ gs.stage = "moved") =>
        LET x == gs.pos.x
            y == gs.pos.y
            dx == HeldX(gs.intent)
            dy == HeldY(gs.intent)
            keepX == ~Blocked(x + dx, y, gs.floor)
            keepY == ~Blocked(x, y + dy, gs.floor)
        IN  IF keepX /\ keepY /\ Blocked(x + dx, y + dy, gs.floor)
            THEN gs.newPos = gs.pos
            ELSE /\ gs.newPos.x = (IF keepX THEN x + dx ELSE x)
                 /\ gs.newPos.y = (IF keepY THEN y + dy ELSE y)

(* C23 happens: with two keys held the move is blocked on one axis and    *)
(* slides along the other.                                                 *)
C23_Witness ==
    /\ impl = 5 /\ gs.stage = "moved"
    /\ HeldX(gs.intent) # 0 /\ HeldY(gs.intent) # 0
    /\ gs.newPos.x = gs.pos.x /\ gs.newPos.y = gs.pos.y + HeldY(gs.intent)
    /\ gs.pos.x > 10 /\ gs.pos.x < CANVAS_WIDTH - PLAYER_SIZE - 10

----------------------------------------------------------------------------
(* Properties of the second Game.                                          *)

(* C22: in the second Game the timer reaching 0 is not fatal: the firing  *)
(* of the timer that finds timeLeft at 0 leaves isGameOver false, keeps   *)
(* the floor index, resets timeLeft to 60 and does not raise the score.   *)
C22_TimeoutNotFatal2 ==
    [][(TimerEffect2 /\ gs.timeLeft <= 0) =>
          /\ ~gs'.isGameOver
          /\ gs'.currentFloor = gs.currentFloor
          /\ gs'.timeLeft = 60 * TimeScale
          /\ gs'.score <= gs.score]_vars

(* C31: in the second Game, on any floor and after any sequence of ticks,  *)
(* directions, floor advances and restarts, the player's footprint         *)
(* [x, x+20] x [y, y+20] overlaps no wall rectangle.                       *)
C31_FootprintClear2 ==
    impl = 7 => ~collides(gs.pos.x, gs.pos.y, generateWalls2(gs.floor), PLAYER_SIZE_2)

(* C31 happens: on a floor reached by an advance the player stands against *)
(* an obstacle that blocks the way down.                                   *)
C31_Witness ==
    /\ impl = 7 /\ gs.floor > 1
    /\ gs.pos.y + SPEED_2 + PLAYER_SIZE_2 < CANVAS_HEIGHT - 10
    /\ collides(gs.pos.x, gs.pos.y + SPEED_2, generateWalls2(gs.floor), PLAYER_SIZE_2)

----------------------------------------------------------------------------
(* Properties of the patrol.                                               *)

(* The guard's distance (tenths) to the waypoint it heads for; its paths  *)
(* are horizontal.                                                         *)
Remaining(g) == Abs(g.path[g.currentPathIndex + 1].x - g.pos.x)

(* C24: on a tick a guard does exactly one of two things: within 5 of its *)
(* target it advances currentPathIndex cyclically and stays where it is;  *)
(* otherwise it moves by exactly speed toward the target and keeps the    *)
(* index.                                                                  *)
C24_TurnOrWalk ==
    [][PatrolTick =>
          LET g == gs.guard
              h == gs'.guard
              t == g.path[g.currentPathIndex + 1]
          IN  IF Remaining(g) < Scale * 5
              THEN /\ h.currentPathIndex = (g.currentPathIndex + 1) % Len(g.path)
                   /\ h.pos = g.pos
              ELSE /\ h.currentPathIndex = g.currentPathIndex
                   /\ h.pos.y = g.pos.y
                   /\ Abs(h.pos.x - g.pos.x) = 15 + 2 * gs.floor
                   /\ (h.pos.x > g.pos.x) = (t.x > g.pos.x)
                   /\ h.path = g.path /\ h.speed = g.speed]_vars

(* C24 happens: a guard has turned at the far waypoint and is walking     *)
(* back to the first.                                                      *)
C24_Witness ==
    /\ impl = 6 /\ gs.guard.currentPathIndex = 0
    /\ gs.guard.pos.x > gs.guard.path[1].x + Scale * 5
    /\ gs.guard.pos.x < gs.guard.path[2].x

(* C25: a guard that moves toward its target never overshoots it: it      *)
(* moves by at most its remaining distance.                                *)
C25_NoOvershoot ==
    [][(PatrolTick /\ gs'.guard.pos # gs.guard.pos) =>
          Abs(gs'.guard.pos.x - gs.guard.pos.x) <= Remaining(gs.guard)]_vars

(* C26: while ticks keep occurring a guard keeps walking its cycle: it    *)
(* heads for each of its two waypoints again and again.                    *)
C26_KeepsPatrolling ==
    /\ []<>(impl = 6 /\ gs.guard.currentPathIndex = 0)
    /\ []<>(impl = 6 /\ gs.guard.currentPathIndex = 1)

----------------------------------------------------------------------------
(* Properties of the code station and the exit door.                       *)

(* The player's center (pixels) is within 40 on both axes of (px, py).     *)
CenterWithin40(px, py, pos) ==
    /\ Abs(px - (pos.x + 15)) < 40
    /\ Abs(py - (pos.y + 15)) < 40

(* C27: in the first Game foundPassword becomes true only on a live tick  *)
(* without capture at whose end the player's center is within 40 on both  *)
(* axes of the code station (100,300); every such tick leaves it true; no *)
(* command sets it.                                                        *)
C27_DiscoveryAtStation ==
    [][/\ (impl = 1 /\ gs'.foundPassword /\ ~gs.foundPassword) =>
              (/\ Live(gs) /\ ~gs'.isGameOver
               /\ CenterWithin40(100, 300, gs'.playerPos)
               /\ \E i \in Intents : TickLive(i))
       /\ (impl = 1 /\ Live(gs) /\ ~gs'.isGameOver /\ ~gs'.foundPassword
               /\ CenterWithin40(100, 300, gs'.playerPos)) =>
              (/\ \A i \in Intents : ~TickLive(i)
               /\ \A s \in Streams : ~TickStall(s))]_vars

(* C27 happens: the code has been found at the station, and the player is *)
(* still there.                                                            *)
C27_Witness ==
    /\ impl = 1 /\ gs.foundPassword /\ ~gs.showTerminal
    /\ CenterWithin40(100, 300, gs.playerPos)
    /\ gs.timeLeft < InitialTime

(* One of the fields a tick writes, or showTerminal, differs after the     *)
(* step.                                                                   *)
TickFieldsChange ==
    \/ gs'.showTerminal # gs.showTerminal
    \/ gs'.timeLeft # gs.timeLeft
    \/ gs'.playerPos # gs.playerPos
    \/ gs'.score # gs.score
    \/ gs'.isGameOver # gs.isGameOver
    \/ gs'.foundPassword # gs.foundPassword
    \/ gs'.money # gs.money
    \/ gs'.guards # gs.guards

(* A live tick without capture that ends in the door's zone opens the      *)
(* terminal, whatever foundPassword is.                                    *)
DoorOpensTerminal ==
    (impl = 1 /\ Live(gs) /\ ~gs'.isGameOver /\ ~gs'.showTerminal
        /\ CenterWithin40(DoorPos.x, DoorPos.y, gs'.playerPos)) =>
        \A i \in Intents : ~TickLive(i)

(* C28 as stated: a live tick without capture that ends with the player's *)
(* center within 40 on both axes of the door sets showTerminal, whether    *)
(* or not the code is found; from then on showTerminal stays true and      *)
(* timer, motion, collection, patrol, capture and discovery stay halted    *)
(* until a password is submitted.                                          *)
C28_TerminalUntilSubmit ==
    [][/\ DoorOpensTerminal
       /\ (impl = 1 /\ gs.showTerminal /\ TickFieldsChange) => Submit]_vars

(* C28, amended: the same, and showTerminal stays true and the floor      *)
(* halted until a password is submitted, the terminal's close button is    *)
(* pressed or the game is restarted.                                       *)
C28_TerminalUntilResolved ==
    [][/\ DoorOpensTerminal
       /\ (impl = 1 /\ gs.showTerminal /\ TickFieldsChange) =>
              (Abort \/ Submit \/ Restart)]_vars

(* C28 happens: with the code found a tick has opened the terminal, and   *)
(* frames have gone by since.                                              *)
C28_Witness ==
    /\ impl = 1 /\ gs.showTerminal /\ gs.foundPassword
    /\ gs.timeLeft = InitialTime - WalkTicks - 1
    /\ sinceLast > 0

(* C29: in the first Game currentFloor changes only by a matching          *)
(* submission with the terminal open, which adds exactly 1, and by a       *)
(* restart, which makes it 1; it is always at least 1.                     *)
C29_FloorChangesOnlyByMatchOrRestart ==
    /\ [](impl = 1 => gs.currentFloor >= 1)
    /\ [][(impl = 1 /\ gs'.currentFloor # gs.currentFloor) =>
              \/ /\ gs.showTerminal
                 /\ gs'.currentFloor = gs.currentFloor + 1
                 /\ \E s \in Streams : SubmitMatch(s)
              \/ /\ gs'.currentFloor = 1
                 /\ Restart]_vars

(* C29 happens: a matching submission has led to the last floor explored, *)
(* and a frame has run there.                                              *)
C29_Witness ==
    /\ impl = 1 /\ gs.currentFloor = MaxFloor
    /\ gs.timeLeft = InitialTime - 1
    /\ ~gs.isGameOver

(* C30: after a mismatched submission the player's center is outside the  *)
(* door's zone (not within 40 of the door on both axes), so an idle tick   *)
(* does not open the terminal again; for every place at which the terminal *)
(* can be open.                                                            *)
C30_RejectionLeavesZone ==
    [][SubmitMismatch => ~CenterWithin40(DoorPos.x, DoorPos.y, gs'.playerPos)]_vars

----------------------------------------------------------------------------
(* Properties of the capture.                                              *)

(* C32: in the first Game isGameOver and showTerminal are never both true: *)
(* a capture tick does not open the terminal, and once one of the flags is *)
(* set no step sets the other.                                             *)
C32_GameOverExcludesTerminal ==
    /\ [](impl = 1 => ~(gs.isGameOver /\ gs.showTerminal))
    /\ [][impl = 1 => /\ gs.isGameOver => ~gs'.showTerminal
                      /\ gs.showTerminal => ~gs'.isGameOver]_vars

(* C32 happens: the player has been captured on a tick that would have    *)
(* ended in the door's zone, and the terminal is closed.                   *)
C32_Witness ==
    /\ impl = 1 /\ gs.isGameOver /\ ~gs.showTerminal
    /\ \E i \in Intents :
          CenterWithin40(DoorPos.x, DoorPos.y, MovePlayer(gs.playerPos, i, gs.walls))

(* C34: in the first Game a tick on which the player is captured changes  *)
(* only isGameOver: position, guards, money, score, foundPassword,         *)
(* showTerminal and timeLeft keep their values, so money within tolerance  *)
(* on that tick is not collected and not paid.                             *)
C34_CaptureChangesOnlyGameOver ==
    [][(impl = 1 /\ Live(gs) /\ ~TimesOut(gs, sinceLast + 1)) =>
          \/ gs' = [gs EXCEPT !.isGameOver = TRUE]
          \/ \A i \in Intents : ~(CaptureOn(gs, i) /\ TickLive(i))]_vars

(* C34 happens: the player has been captured on a tick whose move brought  *)
(* an uncollected item within reach.                                       *)
C34_Witness ==
    /\ impl = 1 /\ gs.isGameOver
    /\ \E i \in Intents :
          /\ Allowed(gs, i)
          /\ CaptureOn(gs, i)
          /\ InReach(gs.money, MovePlayer(gs.playerPos, i, gs.walls)) # {}

----------------------------------------------------------------------------
(* Properties of the spawn.                                                *)

(* C35: on every floor the spawn footprint [50, 80] x [50, 80] of the      *)
(* first Game overlaps no obstacle of generateWalls(floor), so a floor     *)
(* never starts with the player inside a wall.                             *)
C35_SpawnClearOfWalls ==
    (impl = 8 /\ gs.playerPos = SpawnPos) =>
        ~collides(SpawnPos.x, SpawnPos.y, generateWalls(gs.currentFloor), PLAYER_SIZE)

(* C36: on every floor the sampling region of generateMoney holds a point  *)
(* outside every wall expanded by the margin 15, so under fair random      *)
(* draws the placement loop of the first Game ends for every item.         *)
C36_FreePointSoFairLoopEnds ==
    /\ [](impl = 4 /\ gs.variant = 1 =>
            \E nx \in DrawValues, ny \in DrawValues :
                ~NearWall(MoneyPoint(nx, ny), generateWalls(gs.floor), MONEY_MARGIN))
    /\ ((impl = 4 /\ gs.variant = 1) => <>(gs.stage = "done"))

(* C36 happens: the draw for the last item of a floor of the first Game    *)
(* has just been rejected.                                                 *)
C36_Witness ==
    /\ impl = 4 /\ gs.variant = 1
    /\ gs.stage = "loop" /\ gs.i = NumBills(gs.floor) - 1
    /\ ~gs.valid /\ gs.pos # [x |-> 0, y |-> 0]

(* The same floor generated once more, with the draws s.                   *)
Regenerated(g, s) == initFloor(g.currentFloor, g.score, s)

C38_NeverCaughtAtSpawn ==
    (impl = 1 /\ gs.playerPos = SpawnPos) =>
        /\ ~gs.isGameOver
        /\ \A j \in 1..Len(gs.guards) :
              /\ gs.guards[j].pos.y = gs.guards[j].path[1].y
              /\ gs.guards[j].pos.y >= Scale * 100
              /\ gs.guards[j].pos.y < Scale * (CANVAS_HEIGHT - 100)
              /\ ~Within(gs.guards[j].pos, SpawnPos, CAPTURE_TOLERANCE)

(* C38 happens: the player still stands on the spawn while a guard of the  *)
(* topmost row, back from its far waypoint, is about to turn at the west   *)
(* end of its path.                                                        *)
C38_Witness ==
    /\ impl = 1 /\ gs.playerPos = SpawnPos /\ gs.timeLeft < InitialTime
    /\ \E j \in 1..Len(gs.guards) :
          /\ gs.guards[j].pos.y = Scale * 100
          /\ gs.guards[j].currentPathIndex = 0
          /\ gs.guards[j].pos.x > gs.guards[j].path[1].x
          /\ gs.guards[j].pos.x < gs.guards[j].path[1].x + Scale * PATROL_THRESHOLD

----------------------------------------------------------------------------
(* Properties of the score.                                                *)

(* The score less what the collected items of the floor are worth.         *)
ScoreBase(g) ==
    g.score - 100 * g.currentFloor * Cardinality({ j \in 1..Len(g.money) : g.money[j].collected })

(* C33: in the first Game the score is the score passed to the floor's     *)
(* initialization plus 100 * currentFloor for every collected item: the    *)
(* game starts with score 0 and nothing collected, and the difference      *)
(* changes only in a step that initializes a floor, with no item           *)
(* collected.                                                              *)
C33_ScoreIsBasePlusCollected ==
    /\ (impl = 1 => gs.score = 0 /\ AllUncollected(gs.money))
    /\ [][(impl = 1 /\ ScoreBase(gs') # ScoreBase(gs)) =>
              (AllUncollected(gs'.money) /\ FloorInit)]_vars

(* C33 happens: on the second floor an item is collected, on top of a      *)
(* score brought along.                                                    *)
C33_Witness ==
    /\ impl = 1 /\ gs.currentFloor = 2
    /\ ScoreBase(gs) > 0 /\ ScoreBase(gs) < gs.score

====
